---- MODULE Spec2Model ----
(***************************************************************************)
(* Model of runpod-deploy/ocr.py (and the page-range parser it shares with *)
(* runpod-deploy/ocr_pdf.py): page-range resolution, fill-zone             *)
(* normalisation, stream aggregation, bbox-JSON repair and the page loop   *)
(* with its output assembly; and of the interactive mode of                *)
(* runpod-deploy/ask.py.                                                   *)
(*                                                                         *)
(* A Python str is a sequence of one-character strings.  A Python          *)
(* exception is a value: operators that can raise return a record with an  *)
(* `ok` flag, and the page loop records the exception in `exc`.            *)
(***************************************************************************)
EXTENDS Integers, Sequences, FiniteSets, TLC

VARIABLES
    nf_in,              \* normalize_fill_zones: the text first passed in
    nf_hist,            \* normalize_fill_zones: results of successive calls
    pr_pages,           \* args.pages: [given, spec]
    pr_total,           \* total_pages
    pr_result,          \* page_nums, or the ValueError of parse_page_range
    st_stream,          \* ocr_image_base64: the chunks the stream delivers
    st_pos,             \* ocr_image_base64: chunks consumed so far
    parts,              \* ocr_image_base64: parts
    finish_reason,      \* ocr_image_base64: finish_reason
    st_warned,          \* ocr_image_base64: the truncation warning was printed
    st_ret,             \* ocr_image_base64: returned text
    st_pc,              \* "iter" | "after" | "done"
    pb_raw,             \* parse_bbox_response: raw
    pb_result,          \* parse_bbox_response: returned list
    pb_pc,              \* "init" | "returned"
    pc,                 \* main: "select" | "render" | "loop" | "post" |
                        \*       "write" | "done" | "crashed"
    fmt,                \* main: args.output_format
    to_file,            \* main: args.output is given
    is_pdf,             \* main: is_pdf
    images,             \* main: images, as [label, page]
    idx,                \* main: images the page loop has finished
    main_raw,           \* main: raw of the current image
    all_text_results,   \* main: all_text_results
    all_json_results,   \* main: all_json_results
    output,             \* main: output
    dest,               \* the result destination: [kind, content]
    exc,                \* the exception that ended main, "None" if none
    messages,           \* run_interactive: messages, as [role, text, image]
    first_turn,         \* run_interactive: first_turn
    question,           \* run_interactive: question
    ia_pc               \* "idle" | "input" | "request" | "ended" | "crashed"

vars == << nf_in, nf_hist, pr_pages, pr_total, pr_result,
           st_stream, st_pos, parts, finish_reason, st_warned, st_ret, st_pc,
           pb_raw, pb_result, pb_pc,
           pc, fmt, to_file, is_pdf, images, idx, main_raw, all_text_results,
           all_json_results, output, dest, exc,
           messages, first_turn, question, ia_pc >>

nfVars == << nf_in, nf_hist >>
prVars == << pr_pages, pr_total, pr_result >>
stVars == << st_stream, st_pos, parts, finish_reason, st_warned, st_ret, st_pc >>
pbVars == << pb_raw, pb_result, pb_pc >>
mainVars == << pc, fmt, to_file, is_pdf, images, idx, main_raw, all_text_results,
              all_json_results, output, dest, exc >>
iaVars == << messages, first_turn, question, ia_pc >>

----------------------------------------------------------------------------
(* Generic string helpers (Python str methods used by the source).         *)

\* All sequences over alphabet A of length 0..n.
StringsUpTo(A, n) == UNION { [1..k -> A] : k \in 0..n }

\* s[a:b] with 1-based inclusive positions a..b.
Slice(s, a, b) == IF a > b THEN <<>> ELSE SubSeq(s, a, b)

\* Characters removed by str.strip() with no argument.
PyWhitespace == {" ", "\n", "\t", "\r", "\f"}

RECURSIVE LStripIdx(_, _)
LStripIdx(s, i) ==
    IF i <= Len(s) /\ s[i] \in PyWhitespace THEN LStripIdx(s, i + 1) ELSE i

RECURSIVE RStripIdx(_, _)
RStripIdx(s, j) ==
    IF j >= 1 /\ s[j] \in PyWhitespace THEN RStripIdx(s, j - 1) ELSE j

\* str.strip()
strip(s) == Slice(s, LStripIdx(s, 1), RStripIdx(s, Len(s)))

\* str.startswith(prefix)
startswith(s, prefix) ==
    /\ Len(s) >= Len(prefix)
    /\ SubSeq(s, 1, Len(prefix)) = prefix

\* First position >= i at which character c occurs, 0 if none.
RECURSIVE IndexFrom(_, _, _)
IndexFrom(s, c, i) ==
    IF i > Len(s) THEN 0
    ELSE IF s[i] = c THEN i
    ELSE IndexFrom(s, c, i + 1)

\* Last position <= j at which character c occurs, 0 if none.
RECURSIVE LastIndexFrom(_, _, _)
LastIndexFrom(s, c, j) ==
    IF j < 1 THEN 0
    ELSE IF s[j] = c THEN j
    ELSE LastIndexFrom(s, c, j - 1)

\* str.split(sep) for a one-character separator: a sequence of strings.
RECURSIVE split(_, _)
split(s, sep) ==
    LET k == IndexFrom(s, sep, 1) IN
    IF k = 0 THEN << s >>
    ELSE << Slice(s, 1, k - 1) >> \o split(Slice(s, k + 1, Len(s)), sep)

\* sep.join(lines) for a string separator.
RECURSIVE join(_, _)
join(sep, lines) ==
    IF Len(lines) = 0 THEN <<>>
    ELSE IF Len(lines) = 1 THEN lines[1]
    ELSE lines[1] \o sep \o join(sep, Tail(lines))

----------------------------------------------------------------------------
(* Fill-zone normalisation: _FILL_RE = ([.\-_])\1{3,}, sub('___', text).   *)

FillChars == {".", "-", "_"}

Placeholder == << "_", "_", "_" >>

\* Length of the run of character c starting at position i.
RECURSIVE RunLen(_, _, _)
RunLen(s, i, c) ==
    IF i <= Len(s) /\ s[i] = c THEN 1 + RunLen(s, i + 1, c) ELSE 0

\* A plausible slip: the threshold written as three repeats, not four.
RECURSIVE FillSubThree(_, _, _)
FillSubThree(s, i, repl) ==
    IF i > Len(s) THEN <<>>
    ELSE LET n == RunLen(s, i, s[i]) IN
         IF s[i] \in FillChars /\ n >= 3
         THEN repl \o FillSubThree(s, i + n, repl)
         ELSE << s[i] >> \o FillSubThree(s, i + 1, repl)

\* re.sub scans left to right; a match at i is one fill character followed
\* by three or more copies of itself (greedy), i.e. the whole run from i.
RECURSIVE FillSub(_, _, _)
FillSub(s, i, repl) ==
    IF i > Len(s) THEN <<>>
    ELSE LET n == RunLen(s, i, s[i]) IN
         IF s[i] \in FillChars /\ n >= 4
         THEN repl \o FillSub(s, i + n, repl)
         ELSE << s[i] >> \o FillSub(s, i + 1, repl)

\* A plausible slip: the placeholder written with four underscores.
normalize_fill_zones_long(text) == FillSub(text, 1, << "_", "_", "_", "_" >>)

normalize_fill_zones(text) == FillSub(text, 1, Placeholder)

----------------------------------------------------------------------------
(* Harness for normalize_fill_zones: the text is normalised repeatedly.    *)

MaxFillLen == 6
MaxNormCalls == 3

FillAlphabet == {".", "-", "_", "a"}

\* A form line with a dotted fill-in zone: "Name...........: John".
FillExample ==
    << "N", "a", "m", "e", ".", ".", ".", ".", ".", ".", ".", ".", ".", ".",
       ".", ":", " ", "J", "o", "h", "n" >>

NormalizeCall ==
    /\ Len(nf_hist) < MaxNormCalls
    /\ nf_hist' = Append(nf_hist,
                         normalize_fill_zones(IF nf_hist = <<>> THEN nf_in
                                              ELSE nf_hist[Len(nf_hist)]))
    /\ UNCHANGED nf_in
    /\ UNCHANGED << prVars, stVars, pbVars, mainVars, iaVars >>

----------------------------------------------------------------------------
(* Page-range parsing: parse_page_range, and its call in main.             *)

Digits == {"0", "1", "2", "3", "4", "5", "6", "7", "8", "9"}

DigitVal ==
    ("0" :> 0) @@ ("1" :> 1) @@ ("2" :> 2) @@ ("3" :> 3) @@ ("4" :> 4) @@
    ("5" :> 5) @@ ("6" :> 6) @@ ("7" :> 7) @@ ("8" :> 8) @@ ("9" :> 9)

RECURSIVE DecVal(_, _)
DecVal(s, acc) ==
    IF s = <<>> THEN acc ELSE DecVal(Tail(s), 10 * acc + DigitVal[Head(s)])

\* int(str): surrounding whitespace is ignored, one optional sign, then one
\* or more decimal digits; anything else raises ValueError (ok = FALSE).
\* (The digit separator "_" that int() also accepts is outside the modelled
\* selector alphabet.)
IntOfDigits(d, negative) ==
    IF d # <<>> /\ \A k \in 1..Len(d) : d[k] \in Digits
    THEN [ok |-> TRUE, val |-> IF negative THEN 0 - DecVal(d, 0) ELSE DecVal(d, 0)]
    ELSE [ok |-> FALSE, val |-> 0]

IntOfStripped(t) ==
    IF t # <<>> /\ t[1] \in {"+", "-"} THEN IntOfDigits(Tail(t), t[1] = "-")
    ELSE IntOfDigits(t, FALSE)

int(s) == IntOfStripped(strip(s))

Min(a, b) == IF a <= b THEN a ELSE b

\* sorted(pages) for a set of integers.
RECURSIVE sorted(_)
sorted(S) ==
    IF S = {} THEN <<>>
    ELSE LET m == CHOOSE x \in S : \A y \in S : x <= y
         IN  << m >> \o sorted(S \ {m})

\* range(start, stop) as a set.
range(start, stop) == start .. (stop - 1)

\* A plausible slip: the range end is not clamped to total.
RangeStopUnclamped(end, total) == end + 1

\* The stop of range(start, min(end, total) + 1).
RangeStop(end, total) == Min(end, total) + 1

\* The body of `for part in spec.split(",")`, over the parts still to do.
RECURSIVE PageRangeLoop(_, _, _)
RECURSIVE AddRange(_, _, _, _, _)
RECURSIVE AddSingle(_, _, _, _)
RECURSIVE PagePart(_, _, _, _)

\* start, end = int(start), int(end); pages.update(range(...))
AddRange(rest, total, pages, start, end) ==
    IF start.ok /\ end.ok
    THEN PageRangeLoop(rest, total,
                       pages \cup range(start.val, RangeStop(end.val, total)))
    ELSE [ok |-> FALSE, pages |-> {}]

\* p = int(part); if 1 <= p <= total: pages.add(p)
AddSingle(rest, total, pages, p) ==
    IF p.ok
    THEN PageRangeLoop(rest, total,
                       IF 1 <= p.val /\ p.val <= total THEN pages \cup {p.val}
                       ELSE pages)
    ELSE [ok |-> FALSE, pages |-> {}]

\* part is the stripped token, k the position of its first "-" (0: none).
PagePart(rest, total, pages, part) ==
    IF IndexFrom(part, "-", 1) # 0
    THEN AddRange(rest, total, pages,
                  int(Slice(part, 1, IndexFrom(part, "-", 1) - 1)),
                  int(Slice(part, IndexFrom(part, "-", 1) + 1, Len(part))))
    ELSE AddSingle(rest, total, pages, int(part))

PageRangeLoop(ps, total, pages) ==
    IF ps = <<>> THEN [ok |-> TRUE, pages |-> pages]
    ELSE PagePart(Tail(ps), total, pages, strip(Head(ps)))

\* return sorted(pages), or the ValueError.
SortedPages(r) ==
    IF r.ok THEN [ok |-> TRUE, pages |-> sorted(r.pages)]
    ELSE [ok |-> FALSE, pages |-> <<>>]

\* parse_page_range(spec, total): the sorted list, or ValueError (ok = FALSE).
parse_page_range(spec, total) ==
    SortedPages(PageRangeLoop(split(spec, ","), total, {}))

\* list(range(1, total_pages + 1))
AllPages(total) == [k \in 1..total |-> k]

\* main: `if args.pages:` is false for None and for the empty string.
SelectPages(pages_arg, total) ==
    IF pages_arg.given /\ pages_arg.spec # <<>>
    THEN parse_page_range(pages_arg.spec, total)
    ELSE [ok |-> TRUE, pages |-> AllPages(total)]

----------------------------------------------------------------------------
(* JSON values and json.loads (CPython json.decoder / json.scanner, as     *)
(* called by parse_bbox_response).  A value is a record [k, v]:            *)
(*   k = "null" | "bool" | "num" | "str" | "list" | "dict";                *)
(* a str carries its characters, a num its lexeme, a list a sequence of    *)
(* values, a dict its items [key, val] in insertion order (keys unique).   *)

Null == [k |-> "null", v |-> 0]
Bool(b) == [k |-> "bool", v |-> b]
Num(lexeme) == [k |-> "num", v |-> lexeme]
Str(chars) == [k |-> "str", v |-> chars]
List(items) == [k |-> "list", v |-> items]
Dict(items) == [k |-> "dict", v |-> items]

EmptyDict == Dict(<<>>)

\* isinstance(x, list | dict | str)
IsList(x) == x.k = "list"
IsDict(x) == x.k = "dict"
IsStr(x) == x.k = "str"
IsNum(x) == x.k = "num"

\* key in d, d[key], d.get(key) (None when absent)
HasKey(d, key) == \E n \in 1..Len(d.v) : d.v[n].key = key
GetKey(d, key) == d.v[CHOOSE n \in 1..Len(d.v) : d.v[n].key = key].val
DictGet(d, key) == IF HasKey(d, key) THEN GetKey(d, key) ELSE Null

\* d[key] = value: an existing key keeps its place, a new one goes last.
DictSet(d, key, value) ==
    IF HasKey(d, key)
    THEN Dict([n \in 1..Len(d.v) |->
                  IF d.v[n].key = key THEN [key |-> key, val |-> value]
                  ELSE d.v[n]])
    ELSE Dict(Append(d.v, [key |-> key, val |-> value]))

\* A parse step: the value and the position after it, or a JSONDecodeError.
ParseOk(val, end) == [ok |-> TRUE, val |-> val, end |-> end]
ParseFail == [ok |-> FALSE, val |-> Null, end |-> 0]

JsonWhitespace == {" ", "\t", "\n", "\r"}

\* WHITESPACE.match(s, i).end()
RECURSIVE SkipWs(_, _)
SkipWs(s, i) ==
    IF i <= Len(s) /\ s[i] \in JsonWhitespace THEN SkipWs(s, i + 1) ELSE i

\* s[i:i+len(lit)] == lit
MatchAt(s, i, lit) ==
    /\ i + Len(lit) - 1 <= Len(s)
    /\ SubSeq(s, i, i + Len(lit) - 1) = lit

\* BACKSLASH: the one-character escapes of a JSON string.
Backslash ==
    ("\"" :> "\"") @@ ("\\" :> "\\") @@ ("/" :> "/") @@ ("b" :> "\\b") @@
    ("f" :> "\f") @@ ("n" :> "\n") @@ ("r" :> "\r") @@ ("t" :> "\t")

\* Control characters, which strict mode rejects inside a string.
ControlChars == {"\n", "\t", "\r", "\f"}

HexDigits == Digits \cup {"a", "b", "c", "d", "e", "f", "A", "B", "C", "D", "E", "F"}

\* py_scanstring(s, i): i is the position after the opening quote.  A
\* \uXXXX escape decodes to one character, written here "\\u".
RECURSIVE py_scanstring(_, _, _)
py_scanstring(s, i, acc) ==
    IF i > Len(s) THEN ParseFail
    ELSE IF s[i] = "\"" THEN ParseOk(acc, i + 1)
    ELSE IF s[i] = "\\" THEN
        IF i + 1 > Len(s) THEN ParseFail
        ELSE IF s[i + 1] \in DOMAIN Backslash
             THEN py_scanstring(s, i + 2, Append(acc, Backslash[s[i + 1]]))
        ELSE IF s[i + 1] = "u"
                /\ i + 5 <= Len(s)
                /\ \A k \in (i + 2)..(i + 5) : s[k] \in HexDigits
             THEN py_scanstring(s, i + 6, Append(acc, "\\u"))
        ELSE ParseFail
    ELSE IF s[i] \in ControlChars THEN ParseFail
    ELSE py_scanstring(s, i + 1, Append(acc, s[i]))

\* Position after the run of digits starting at i.
RECURSIVE SkipDigits(_, _)
SkipDigits(s, i) ==
    IF i <= Len(s) /\ s[i] \in Digits THEN SkipDigits(s, i + 1) ELSE i

\* NUMBER_RE = (-?(?:0|[1-9]\d*))(\.\d+)?([eE][-+]?\d+)? matched at i:
\* the position after the match, 0 if there is none.  Each group is given
\* the position the one before it ended at.
IntEnd(s, j) ==
    IF j > Len(s) \/ s[j] \notin Digits THEN 0
    ELSE IF s[j] = "0" THEN j + 1
    ELSE SkipDigits(s, j)

FracEnd(s, e) ==
    IF e # 0 /\ e + 1 <= Len(s) /\ s[e] = "." /\ s[e + 1] \in Digits
    THEN SkipDigits(s, e + 1) ELSE e

ExpDigits(s, e) ==
    IF e + 1 <= Len(s) /\ s[e + 1] \in {"+", "-"} THEN e + 2 ELSE e + 1

ExpEnd(s, e) ==
    IF /\ e # 0 /\ e <= Len(s) /\ s[e] \in {"e", "E"}
       /\ ExpDigits(s, e) <= Len(s) /\ s[ExpDigits(s, e)] \in Digits
    THEN SkipDigits(s, ExpDigits(s, e)) ELSE e

NumberEnd(s, i) ==
    ExpEnd(s, FracEnd(s, IntEnd(s, IF i <= Len(s) /\ s[i] = "-"
                                   THEN i + 1 ELSE i)))

\* The number a lexeme denotes; int("-0") is 0.  Other lexemes stand for
\* themselves (float arithmetic is not modelled).
NumLit(lexeme) == IF lexeme = << "-", "0" >> THEN Num(<< "0" >>) ELSE Num(lexeme)

LitNull == << "n", "u", "l", "l" >>
LitTrue == << "t", "r", "u", "e" >>
LitFalse == << "f", "a", "l", "s", "e" >>
LitNaN == << "N", "a", "N" >>
LitInfinity == << "I", "n", "f", "i", "n", "i", "t", "y" >>

\* scan_once(s, i), JSONArray and JSONObject of json.decoder.  Each step
\* of a loop body is an operator given what the step before it produced.
RECURSIVE scan_once(_, _)
RECURSIVE JSONArrayItems(_, _, _)
RECURSIVE ArrayAfterItem(_, _, _)
RECURSIVE ArrayDelim(_, _, _)
RECURSIVE JSONObjectItems(_, _, _)
RECURSIVE ObjectAfterKey(_, _, _)
RECURSIVE ObjectColon(_, _, _, _)
RECURSIVE ObjectAfterValue(_, _, _, _)
RECURSIVE ObjectDelim(_, _, _)
RECURSIVE ObjectNextKey(_, _, _)

\* j: the first non-blank position after "[".
ArrayStart(s, j) ==
    IF j <= Len(s) /\ s[j] = "]" THEN ParseOk(List(<<>>), j + 1)
    ELSE JSONArrayItems(s, j, <<>>)

JSONArray(s, i) == ArrayStart(s, SkipWs(s, i))

JSONArrayItems(s, i, acc) == ArrayAfterItem(s, acc, scan_once(s, i))

ArrayAfterItem(s, acc, r) ==
    IF ~r.ok THEN ParseFail
    ELSE ArrayDelim(s, Append(acc, r.val), SkipWs(s, r.end))

ArrayDelim(s, acc, j) ==
    IF j > Len(s) THEN ParseFail
    ELSE IF s[j] = "]" THEN ParseOk(List(acc), j + 1)
    ELSE IF s[j] = "," THEN JSONArrayItems(s, SkipWs(s, j + 1), acc)
    ELSE ParseFail

\* j: the first non-blank position after "{".
ObjectStart(s, j) ==
    IF j > Len(s) THEN ParseFail
    ELSE IF s[j] = "}" THEN ParseOk(EmptyDict, j + 1)
    ELSE IF s[j] = "\"" THEN JSONObjectItems(s, j + 1, EmptyDict)
    ELSE ParseFail

JSONObject(s, i) == ObjectStart(s, SkipWs(s, i))

\* i is the position after the opening quote of the next key.
JSONObjectItems(s, i, acc) == ObjectAfterKey(s, acc, py_scanstring(s, i, <<>>))

ObjectAfterKey(s, acc, key) ==
    IF ~key.ok THEN ParseFail
    ELSE ObjectColon(s, acc, key.val, SkipWs(s, key.end))

ObjectColon(s, acc, key, c) ==
    IF c > Len(s) \/ s[c] # ":" THEN ParseFail
    ELSE ObjectAfterValue(s, acc, key, scan_once(s, SkipWs(s, c + 1)))

ObjectAfterValue(s, acc, key, r) ==
    IF ~r.ok THEN ParseFail
    ELSE ObjectDelim(s, DictSet(acc, key, r.val), SkipWs(s, r.end))

ObjectDelim(s, d, j) ==
    IF j > Len(s) THEN ParseFail
    ELSE IF s[j] = "}" THEN ParseOk(d, j + 1)
    ELSE IF s[j] = "," THEN ObjectNextKey(s, d, SkipWs(s, j + 1))
    ELSE ParseFail

ObjectNextKey(s, d, q) ==
    IF q <= Len(s) /\ s[q] = "\"" THEN JSONObjectItems(s, q + 1, d)
    ELSE ParseFail

\* A scanned string as a value.
StringValue(r) == IF r.ok THEN ParseOk(Str(r.val), r.end) ELSE ParseFail

\* A number whose match ends before position e.
NumberValue(s, i, e) == ParseOk(NumLit(SubSeq(s, i, e - 1)), e)

scan_once(s, i) ==
    IF i > Len(s) THEN ParseFail
    ELSE IF s[i] = "\"" THEN StringValue(py_scanstring(s, i + 1, <<>>))
    ELSE IF s[i] = "{" THEN JSONObject(s, i + 1)
    ELSE IF s[i] = "[" THEN JSONArray(s, i + 1)
    ELSE IF MatchAt(s, i, LitNull) THEN ParseOk(Null, i + 4)
    ELSE IF MatchAt(s, i, LitTrue) THEN ParseOk(Bool(TRUE), i + 4)
    ELSE IF MatchAt(s, i, LitFalse) THEN ParseOk(Bool(FALSE), i + 5)
    ELSE IF NumberEnd(s, i) # 0 THEN NumberValue(s, i, NumberEnd(s, i))
    ELSE IF MatchAt(s, i, LitNaN) THEN ParseOk(Num(LitNaN), i + 3)
    ELSE IF MatchAt(s, i, LitInfinity) THEN ParseOk(Num(LitInfinity), i + 8)
    ELSE IF MatchAt(s, i, << "-" >> \o LitInfinity)
         THEN ParseOk(Num(<< "-" >> \o LitInfinity), i + 9)
    ELSE ParseFail

\* The end of json.loads: only whitespace may follow the value ("Extra
\* data" otherwise).
Decoded(s, r) ==
    IF r.ok /\ SkipWs(s, r.end) = Len(s) + 1 THEN [ok |-> TRUE, val |-> r.val]
    ELSE [ok |-> FALSE, val |-> Null]

\* json.loads(s); ok = FALSE is json.JSONDecodeError.
json_loads(s) == Decoded(s, scan_once(s, SkipWs(s, 1)))

----------------------------------------------------------------------------
(* json.dumps(obj, indent=2, ensure_ascii=False), as main calls it.        *)

\* str(n) for an integer n.
RECURSIVE NatStr(_)
NatStr(n) ==
    LET d == CHOOSE c \in Digits : DigitVal[c] = n % 10 IN
    IF n < 10 THEN << d >> ELSE NatStr(n \div 10) \o << d >>

str(n) == IF n < 0 THEN << "-" >> \o NatStr(0 - n) ELSE NatStr(n)

\* ESCAPE_DCT of json.encoder for the characters of the model.
EscapeChar(c) ==
    CASE c = "\"" -> << "\\", "\"" >>
      [] c = "\\" -> << "\\", "\\" >>
      [] c = "\n" -> << "\\", "n" >>
      [] c = "\r" -> << "\\", "r" >>
      [] c = "\t" -> << "\\", "t" >>
      [] c = "\f" -> << "\\", "f" >>
      [] c = "\\b" -> << "\\", "b" >>
      [] OTHER -> << c >>

RECURSIVE EscapeChars(_)
EscapeChars(chars) ==
    IF chars = <<>> THEN <<>>
    ELSE EscapeChar(Head(chars)) \o EscapeChars(Tail(chars))

\* encode_basestring: the quoted, escaped string.
encode_basestring(chars) == << "\"" >> \o EscapeChars(chars) \o << "\"" >>

RECURSIVE Spaces(_)
Spaces(n) == IF n <= 0 THEN <<>> ELSE << " " >> \o Spaces(n - 1)

IndentWidth == 2

\* _make_iterencode: a value at nesting level lvl.
RECURSIVE iterencode(_, _)
RECURSIVE iterencode_items(_, _, _)

\* The items of a list or dict from position n on, each on its own line.
iterencode_items(x, n, lvl) ==
    LET item == IF IsDict(x)
                THEN encode_basestring(x.v[n].key) \o << ":", " " >>
                     \o iterencode(x.v[n].val, lvl)
                ELSE iterencode(x.v[n], lvl)
    IN  << "\n" >> \o Spaces(IndentWidth * lvl) \o item
        \o (IF n < Len(x.v)
            THEN << "," >> \o iterencode_items(x, n + 1, lvl)
            ELSE <<>>)

iterencode(x, lvl) ==
    CASE x.k = "null" -> LitNull
      [] x.k = "bool" -> IF x.v THEN LitTrue ELSE LitFalse
      [] x.k = "num" -> x.v
      [] x.k = "str" -> encode_basestring(x.v)
      [] x.k = "list" ->
            IF x.v = <<>> THEN << "[", "]" >>
            ELSE << "[" >> \o iterencode_items(x, 1, lvl + 1)
                 \o << "\n" >> \o Spaces(IndentWidth * lvl) \o << "]" >>
      [] x.k = "dict" ->
            IF x.v = <<>> THEN << "{", "}" >>
            ELSE << "{" >> \o iterencode_items(x, 1, lvl + 1)
                 \o << "\n" >> \o Spaces(IndentWidth * lvl) \o << "}" >>

json_dumps(obj) == iterencode(obj, 0)

----------------------------------------------------------------------------
(* parse_bbox_response: fence stripping, the shape guards, the bracket     *)
(* search and the parse_error fallback.                                    *)

\* The character U+0060 (a TLA+ string literal cannot hold it).
Grave == "GRAVE"

Fence == << Grave, Grave, Grave >>

KeyText == << "t", "e", "x", "t" >>
KeyBbox == << "b", "b", "o", "x" >>
KeyParseError == << "p", "a", "r", "s", "e", "_", "e", "r", "r", "o", "r" >>
KeySource == << "s", "o", "u", "r", "c", "e" >>
KeyRegions == << "r", "e", "g", "i", "o", "n", "s" >>

\* lines[:-1] when the last line is a bare fence.
DropClosingFence(lines) ==
    IF lines # <<>> /\ strip(lines[Len(lines)]) = Fence
    THEN SubSeq(lines, 1, Len(lines) - 1)
    ELSE lines

\* A plausible slip: the closing fence line is never dropped.
StripFenceKeepLast(text) ==
    IF startswith(text, Fence)
    THEN join(<< "\n" >>, Tail(split(text, "\n")))
    ELSE text

\* The fence-stripping block, given text = raw.strip().
StripFence(text) ==
    IF startswith(text, Fence)
    THEN join(<< "\n" >>, DropClosingFence(Tail(split(text, "\n"))))
    ELSE text

\* `text` as json.loads receives it.
FenceStripped(raw) == StripFence(strip(raw))

\* The span of re.search(r"\[.*\]", text, re.DOTALL): from the first "["
\* at p to the last "]" at q, when that lies after it.
BracketSpan(text, p, q) ==
    IF p # 0 /\ q > p
    THEN [found |-> TRUE, group |-> SubSeq(text, p, q)]
    ELSE [found |-> FALSE, group |-> <<>>]

BracketSearch(text) ==
    BracketSpan(text, IndexFrom(text, "[", 1), LastIndexFrom(text, "]", Len(text)))

\* {"text": raw, "bbox": None, "parse_error": True}
FallbackChunk(raw) ==
    Dict(<< [key |-> KeyText, val |-> Str(raw)],
            [key |-> KeyBbox, val |-> Null],
            [key |-> KeyParseError, val |-> Bool(TRUE)] >>)

\* `parsed = json.loads(inner)`: parsed when it is a list, else what the
\* code goes on to return.
InnerList(parsed, otherwise) ==
    IF parsed.ok /\ IsList(parsed.val) THEN parsed.val ELSE otherwise

\* A plausible slip: the "bbox" not in data[0] test left out.
IsWrapperNoBboxTest(data) ==
    /\ Len(data.v) = 1
    /\ IsDict(data.v[1])
    /\ HasKey(data.v[1], KeyText)

\* The guard of the [{"text": "<json array string>"}] wrapper.
IsWrapper(data) ==
    /\ Len(data.v) = 1
    /\ IsDict(data.v[1])
    /\ HasKey(data.v[1], KeyText)
    /\ ~HasKey(data.v[1], KeyBbox)

\* The list branch.
UnwrapList(data) ==
    IF IsWrapper(data) /\ IsStr(GetKey(data.v[1], KeyText))
    THEN InnerList(json_loads(GetKey(data.v[1], KeyText).v), data)
    ELSE data

\* A plausible slip: the bare value returned without the list around it.
WrapBareUnwrapped(data) == data

\* `return [data]`
WrapBare(data) == List(<< data >>)

\* The bare-value branch: a dict whose "text" holds the array, else [data].
UnwrapOther(data) ==
    IF IsDict(data) /\ HasKey(data, KeyText) /\ IsList(GetKey(data, KeyText))
    THEN GetKey(data, KeyText)
    ELSE IF IsDict(data) /\ HasKey(data, KeyText) /\ IsStr(GetKey(data, KeyText))
    THEN InnerList(json_loads(GetKey(data, KeyText).v), WrapBare(data))
    ELSE WrapBare(data)

\* A plausible slip: the fallback chunk carries the stripped text.
FallbackOfStripped(raw, text) == List(<< FallbackChunk(text) >>)

\* `return [{"text": raw, "bbox": None, "parse_error": True}]`
Fallback(raw, text) == List(<< FallbackChunk(raw) >>)

\* `return json.loads(m.group())`, or the fallback on JSONDecodeError.
GroupOrFallback(parsed, raw, text) ==
    IF parsed.ok THEN parsed.val ELSE Fallback(raw, text)

\* The except branch, given m = re.search(...).
LastResortOf(raw, text, m) ==
    IF m.found THEN GroupOrFallback(json_loads(m.group), raw, text)
    ELSE Fallback(raw, text)

LastResort(raw, text) == LastResortOf(raw, text, BracketSearch(text))

\* The try block, given data = json.loads(text).
Dispatch(raw, text, data) ==
    IF data.ok
    THEN IF IsList(data.val) THEN UnwrapList(data.val)
         ELSE UnwrapOther(data.val)
    ELSE LastResort(raw, text)

ParseText(raw, text) == Dispatch(raw, text, json_loads(text))

\* parse_bbox_response(raw): the returned value.  Every JSONDecodeError is
\* caught inside, so the function returns on every input.
parse_bbox_response(raw) == ParseText(raw, FenceStripped(raw))

----------------------------------------------------------------------------
(* Stream aggregation in ocr_image_base64: `for chunk in stream`.          *)
(* A chunk is [choices, content, finish]: whether chunk.choices is         *)
(* non-empty, choices[0].delta.content ([some, chars]; some = FALSE is     *)
(* None) and choices[0].finish_reason ("None" is None).                    *)

NoContent == [some |-> FALSE, chars |-> <<>>]
Content(chars) == [some |-> TRUE, chars |-> chars]

\* `if choice.delta.content:`
ContentTruthy(c) == c.some /\ c.chars # <<>>

\* `if choice.finish_reason:`
ReasonTruthy(r) == r # "None" /\ r # ""

\* The first reason seen is kept (a plausible slip).
NextFinishReasonFirst(cur, chunk) ==
    IF chunk.choices /\ ReasonTruthy(chunk.finish) /\ cur = "None"
    THEN chunk.finish ELSE cur

\* finish_reason after one chunk.
NextFinishReason(cur, chunk) ==
    IF chunk.choices /\ ReasonTruthy(chunk.finish) THEN chunk.finish ELSE cur

\* parts after one chunk.
NextParts(ps, chunk) ==
    IF chunk.choices /\ ContentTruthy(chunk.content)
    THEN Append(ps, chunk.content.chars) ELSE ps

\* "".join(parts)
RECURSIVE Concat(_)
Concat(ps) == IF ps = <<>> THEN <<>> ELSE Head(ps) \o Concat(Tail(ps))

\* One iteration of `for chunk in stream`.
StreamNext ==
    /\ st_pc = "iter"
    /\ st_pos < Len(st_stream)
    /\ st_pos' = st_pos + 1
    /\ parts' = NextParts(parts, st_stream[st_pos + 1])
    /\ finish_reason' = NextFinishReason(finish_reason, st_stream[st_pos + 1])
    /\ UNCHANGED << st_stream, st_warned, st_ret, st_pc >>
    /\ UNCHANGED << nfVars, prVars, pbVars, mainVars, iaVars >>

\* The stream is exhausted: the truncation warning and the return.
StreamReturn ==
    /\ st_pc = "iter"
    /\ st_pos = Len(st_stream)
    /\ st_warned' = (finish_reason = "length")
    /\ st_ret' = Concat(parts)
    /\ st_pc' = "done"
    /\ UNCHANGED << st_stream, st_pos, parts, finish_reason >>
    /\ UNCHANGED << nfVars, prVars, pbVars, mainVars, iaVars >>

MaxChunks == 3

Deltas == { NoContent, Content(<<>>), Content(<< "a" >>), Content(<< "b" >>) }

FinishReasons == { "None", "stop", "length" }

StreamChunks ==
    { [choices |-> FALSE, content |-> NoContent, finish |-> "None"] }
    \cup { [choices |-> TRUE, content |-> c, finish |-> f] :
             c \in Deltas, f \in FinishReasons }

----------------------------------------------------------------------------
(* Harness for parse_bbox_response: one call on one raw model output.      *)

\* [{"text":"A","bbox":[0,0,0.5,0.5]}]
RawWellFormed ==
    << "[", "{", "\"", "t", "e", "x", "t", "\"", ":", "\"", "A", "\"", ",",
       "\"", "b", "b", "o", "x", "\"", ":", "[", "0", ",", "0", ",", "0",
       ".", "5", ",", "0", ".", "5", "]", "}", "]" >>

\* ```\n[{"text":"A","bbox":null}]\n```
RawFenced ==
    << Grave, Grave, Grave, "\n", "[", "{", "\"", "t", "e", "x", "t", "\"",
       ":", "\"", "A", "\"", ",", "\"", "b", "b", "o", "x", "\"", ":", "n",
       "u", "l", "l", "}", "]", "\n", Grave, Grave, Grave >>

\* ```json\n[{"text":"A"}]\n``` 
RawFencedTagged ==
    << Grave, Grave, Grave, "j", "s", "o", "n", "\n", "[", "{", "\"", "t",
       "e", "x", "t", "\"", ":", "\"", "A", "\"", "}", "]", "\n", Grave,
       Grave, Grave, " " >>

\* [{"text":"[{\"text\":\"A\",\"bbox\":null}]"}]
RawDoubleWrapped ==
    << "[", "{", "\"", "t", "e", "x", "t", "\"", ":", "\"", "[", "{", "\\",
       "\"", "t", "e", "x", "t", "\\", "\"", ":", "\\", "\"", "A", "\\",
       "\"", ",", "\\", "\"", "b", "b", "o", "x", "\\", "\"", ":", "n", "u",
       "l", "l", "}", "]", "\"", "}", "]" >>

\*  hello world
RawProse ==
    << " ", "h", "e", "l", "l", "o", " ", "w", "o", "r", "l", "d" >>

\* {"text":[1]}
RawDictTextList ==
    << "{", "\"", "t", "e", "x", "t", "\"", ":", "[", "1", "]", "}" >>

\* {"text":"[1]"}
RawDictTextEncoded ==
    << "{", "\"", "t", "e", "x", "t", "\"", ":", "\"", "[", "1", "]", "\"",
       "}" >>

\* {"text":"see [2]"}
RawDictTextProse ==
    << "{", "\"", "t", "e", "x", "t", "\"", ":", "\"", "s", "e", "e", " ",
       "[", "2", "]", "\"", "}" >>

\* {"a":1}
RawDictNoText ==
    << "{", "\"", "a", "\"", ":", "1", "}" >>

\* "[1]"
RawStringOfList ==
    << "\"", "[", "1", "]", "\"" >>

\* see [1, 2] ok
RawEmbedded ==
    << "s", "e", "e", " ", "[", "1", ",", " ", "2", "]", " ", "o", "k" >>

\* [1] x [2]
RawTwoArrays ==
    << "[", "1", "]", " ", "x", " ", "[", "2", "]" >>

\* [{"text":"[1]","bbox":null}]
RawWrappedWithBbox ==
    << "[", "{", "\"", "t", "e", "x", "t", "\"", ":", "\"", "[", "1", "]",
       "\"", ",", "\"", "b", "b", "o", "x", "\"", ":", "n", "u", "l", "l",
       "}", "]" >>

\* [{"text":"[1]"},{"text":"b"}]
RawWrappedTwo ==
    << "[", "{", "\"", "t", "e", "x", "t", "\"", ":", "\"", "[", "1", "]",
       "\"", "}", ",", "{", "\"", "t", "e", "x", "t", "\"", ":", "\"", "b",
       "\"", "}", "]" >>

\* [{"text":"1"}]
RawWrappedNonList ==
    << "[", "{", "\"", "t", "e", "x", "t", "\"", ":", "\"", "1", "\"", "}",
       "]" >>

\* [{"text":"a b"}]
RawWrappedProse ==
    << "[", "{", "\"", "t", "e", "x", "t", "\"", ":", "\"", "a", " ", "b",
       "\"", "}", "]" >>

\* [{"text":3}]
RawWrappedNumber ==
    << "[", "{", "\"", "t", "e", "x", "t", "\"", ":", "3", "}", "]" >>

\* [{"text":"[]"}]
RawWrappedEmpty ==
    << "[", "{", "\"", "t", "e", "x", "t", "\"", ":", "\"", "[", "]", "\"",
       "}", "]" >>

\* [{"text":"A","bbox":[0,0,1]}]
RawShortBbox ==
    << "[", "{", "\"", "t", "e", "x", "t", "\"", ":", "\"", "A", "\"", ",",
       "\"", "b", "b", "o", "x", "\"", ":", "[", "0", ",", "0", ",", "1",
       "]", "}", "]" >>

\* [{"text":"N....","bbox":null}]
RawFill ==
    << "[", "{", "\"", "t", "e", "x", "t", "\"", ":", "\"", "N", ".", ".",
       ".", ".", "\"", ",", "\"", "b", "b", "o", "x", "\"", ":", "n", "u",
       "l", "l", "}", "]" >>

\* An opening fence that is never closed.
RawUnclosedFence == << Grave, Grave, Grave, "\n", "[", "1", "]" >>

\* A last line that holds more than the fence.
RawFenceThenProse ==
    << Grave, Grave, Grave, "\n", "[", "1", "]", "\n", Grave, Grave, Grave,
       " ", "x" >>

\* An opening and a closing fence on one line.
RawInlineFence ==
    << Grave, Grave, Grave, "[", "1", "]", Grave, Grave, Grave >>

CuratedRaws ==
    { RawUnclosedFence,
      RawFenceThenProse,
      RawInlineFence,
      RawWellFormed,
      RawFenced,
      RawFencedTagged,
      RawDoubleWrapped,
      RawProse,
      RawDictTextList,
      RawDictTextEncoded,
      RawDictTextProse,
      RawDictNoText,
      RawStringOfList,
      RawEmbedded,
      RawTwoArrays,
      RawWrappedWithBbox,
      RawWrappedTwo,
      RawWrappedNonList,
      RawWrappedProse,
      RawWrappedNumber,
      RawWrappedEmpty,
      RawShortBbox,
      RawFill }

MaxRawLen == 3

RawAlphabet == { "[", "]", "{", "}", "\"", "1", ",", " ", "a" }

\* A fenced answer: the opening fence with its language tag, the body, the
\* closing fence on a line of its own.
Fenced(tag, body) == Fence \o tag \o << "\n" >> \o body \o << "\n" >> \o Fence

\* Every plain answer, and every plain answer inside a fence without and
\* with a language tag.
RawInputs ==
    LET plain == StringsUpTo(RawAlphabet, MaxRawLen) \cup CuratedRaws
    IN  plain \cup { Fenced(tag, body) :
                       tag \in { <<>>, << "j", "s", "o", "n" >> },
                       body \in plain }

ParseCall ==
    /\ pb_pc = "init"
    /\ pb_result' = parse_bbox_response(pb_raw)
    /\ pb_pc' = "returned"
    /\ UNCHANGED pb_raw
    /\ UNCHANGED << nfVars, prVars, stVars, mainVars, iaVars >>

----------------------------------------------------------------------------
(* main: page selection, rendering, the page loop, assembly and output.    *)

\* 2,4,7-9
SelMixed == << "2", ",", "4", ",", "7", "-", "9" >>
\* 1-5
SelClamped == << "1", "-", "5" >>
\* 2,2,1-3
SelDuplicates == << "2", ",", "2", ",", "1", "-", "3" >>

\* input_path.name of an image input.
ImageName == << "a", ".", "p", "n", "g" >>

\* f"page {pn}"
PageLabel(pn) == << "p", "a", "g", "e", " " >> \o str(pn)

\* page_nums from args.pages and total_pages (a PDF input).  A ValueError of
\* parse_page_range is not caught: it ends main.
ResolvePages ==
    /\ pc = "select"
    /\ is_pdf
    /\ pr_result' = SelectPages(pr_pages, pr_total)
    /\ pc' = IF SelectPages(pr_pages, pr_total).ok THEN "render" ELSE "crashed"
    /\ exc' = IF SelectPages(pr_pages, pr_total).ok THEN "None" ELSE "ValueError"
    /\ UNCHANGED << pr_pages, pr_total >>
    /\ UNCHANGED << fmt, to_file, is_pdf, images, idx, main_raw, all_text_results,
                    all_json_results, output, dest >>
    /\ UNCHANGED << nfVars, stVars, pbVars, iaVars >>

\* An image input: the one image, labelled by the file name.
LoadImage ==
    /\ pc = "select"
    /\ ~is_pdf
    /\ images' = << [label |-> ImageName, page |-> 0] >>
    /\ pc' = "loop"
    /\ UNCHANGED << fmt, to_file, is_pdf, idx, main_raw, all_text_results,
                    all_json_results, output, dest, exc >>
    /\ UNCHANGED << nfVars, prVars, stVars, pbVars, iaVars >>

\* The page the next iteration of `for pn in page_nums` renders.
NextPage == pr_result.pages[Len(images) + 1]

\* One iteration of `for pn in page_nums`: page pn - 1 is rendered and
\* appended.
RenderPage ==
    /\ pc = "render"
    /\ Len(images) < Len(pr_result.pages)
    /\ NextPage - 1 \in 0..(pr_total - 1)
    /\ images' = Append(images, [label |-> PageLabel(NextPage), page |-> NextPage])
    /\ UNCHANGED << pc, fmt, to_file, is_pdf, idx, main_raw, all_text_results,
                    all_json_results, output, dest, exc >>
    /\ UNCHANGED << nfVars, prVars, stVars, pbVars, iaVars >>

\* The same for a page index outside the document, which pypdfium2 decides:
\* it raises, or it renders some page.
RenderOutside ==
    /\ pc = "render"
    /\ Len(images) < Len(pr_result.pages)
    /\ NextPage - 1 \notin 0..(pr_total - 1)
    /\ \E raises \in BOOLEAN :
         /\ images' = IF raises THEN images
                      ELSE Append(images, [label |-> PageLabel(NextPage),
                                           page |-> NextPage])
         /\ pc' = IF raises THEN "crashed" ELSE pc
         /\ exc' = IF raises THEN "PdfiumError" ELSE exc
    /\ UNCHANGED << fmt, to_file, is_pdf, idx, main_raw, all_text_results,
                    all_json_results, output, dest >>
    /\ UNCHANGED << nfVars, prVars, stVars, pbVars, iaVars >>

\* Every selected page is rendered: the page loop starts.
BeginLoop ==
    /\ pc = "render"
    /\ Len(images) = Len(pr_result.pages)
    /\ pc' = "loop"
    /\ UNCHANGED << fmt, to_file, is_pdf, images, idx, main_raw, all_text_results,
                    all_json_results, output, dest, exc >>
    /\ UNCHANGED << nfVars, prVars, stVars, pbVars, iaVars >>

\* <b>a  b</b>
RawMarkup ==
    << "<", "b", ">", "a", " ", " ", "b", "<", "/", "b", ">" >>
\* 5
RawBareNumber == << "5" >>

\* Two paragraphs with a blank line between them.
RawParagraphs == << "a", "\n", "\n", "b" >>
\* <br>
RawTagOnly == << "<", "b", "r", ">" >>

\* <b>a</b>\n\nb  c
RawMarkupParagraphs ==
    << "<", "b", ">", "a", "<", "/", "b", ">", "\n", "\n", "b", " ", " ",
       "c" >>

\* What the model may return for a page.
MainRaws ==
    { RawFill, RawFenced, RawProse, RawMarkup, RawBareNumber, RawParagraphs,
      RawTagOnly }

\* raw = ocr_image_base64(...) returns the aggregated text.
OcrRequest ==
    /\ pc = "loop"
    /\ idx < Len(images)
    /\ \E r \in MainRaws : main_raw' = r
    /\ pc' = "post"
    /\ UNCHANGED << fmt, to_file, is_pdf, images, idx, all_text_results,
                    all_json_results, output, dest, exc >>
    /\ UNCHANGED << nfVars, prVars, stVars, pbVars, iaVars >>

\* A plausible slip: the results so far are flushed when a request fails.
OcrRequestFailsFlushes ==
    /\ pc = "loop"
    /\ idx < Len(images)
    /\ pc' = "crashed"
    /\ exc' = "APIError"
    /\ dest' = [kind |-> IF to_file THEN "file" ELSE "stdout",
                content |-> join(<< "\n", "\n" >>, all_text_results)]
    /\ UNCHANGED << fmt, to_file, is_pdf, images, idx, main_raw, all_text_results,
                    all_json_results, output >>
    /\ UNCHANGED << nfVars, prVars, stVars, pbVars, iaVars >>

\* The request or its stream raises: nothing catches it.
OcrRequestFails ==
    /\ pc = "loop"
    /\ idx < Len(images)
    /\ pc' = "crashed"
    /\ exc' = "APIError"
    /\ UNCHANGED << fmt, to_file, is_pdf, images, idx, main_raw, all_text_results,
                    all_json_results, output, dest >>
    /\ UNCHANGED << nfVars, prVars, stVars, pbVars, iaVars >>

\* `r.get("text")` raises AttributeError unless r is a dict.
RegionsRaise(regions) == \E n \in 1..Len(regions.v) : ~IsDict(regions.v[n])

\* if isinstance(r.get("text"), str): r["text"] = normalize_fill_zones(...)
NormalizedRegion(r) ==
    IF IsStr(DictGet(r, KeyText))
    THEN DictSet(r, KeyText, Str(normalize_fill_zones(GetKey(r, KeyText).v)))
    ELSE r

\* regions after `for r in regions`.
NormalizedRegions(regions) ==
    List([n \in 1..Len(regions.v) |-> NormalizedRegion(regions.v[n])])

\* {"source": label, "regions": regions}
PageEntry(label, regions) ==
    Dict(<< [key |-> KeySource, val |-> Str(label)],
            [key |-> KeyRegions, val |-> regions] >>)

\* The json branch of the loop body.
PostJson ==
    /\ pc = "post"
    /\ fmt = "json"
    /\ ~RegionsRaise(parse_bbox_response(main_raw))
    /\ all_json_results' =
          Append(all_json_results,
                 PageEntry(images[idx + 1].label,
                           NormalizedRegions(parse_bbox_response(main_raw))))
    /\ idx' = idx + 1
    /\ pc' = "loop"
    /\ UNCHANGED << fmt, to_file, is_pdf, images, main_raw, all_text_results,
                    output, dest, exc >>
    /\ UNCHANGED << nfVars, prVars, stVars, pbVars, iaVars >>

\* The json branch when an element of regions is not a dict.
PostJsonRaises ==
    /\ pc = "post"
    /\ fmt = "json"
    /\ RegionsRaise(parse_bbox_response(main_raw))
    /\ pc' = "crashed"
    /\ exc' = "AttributeError"
    /\ UNCHANGED << fmt, to_file, is_pdf, images, idx, main_raw, all_text_results,
                    all_json_results, output, dest >>
    /\ UNCHANGED << nfVars, prVars, stVars, pbVars, iaVars >>

\* re.sub(r"<[^>]+>", " ", raw): a tag is "<", one or more characters other
\* than ">", then ">".
RECURSIVE StripTags(_, _)
StripTags(s, i) ==
    IF i > Len(s) THEN <<>>
    ELSE IF s[i] = "<" /\ IndexFrom(s, ">", i + 1) > i + 1
         THEN << " " >> \o StripTags(s, IndexFrom(s, ">", i + 1) + 1)
         ELSE << s[i] >> \o StripTags(s, i + 1)

\* A plausible slip: runs of spaces are left as they are.
KeepSpaces(s, i) == SubSeq(s, i, Len(s))

\* re.sub(r" {2,}", " ", cleaned)
RECURSIVE CollapseSpaces(_, _)
CollapseSpaces(s, i) ==
    IF i > Len(s) THEN <<>>
    ELSE IF s[i] = " " /\ RunLen(s, i, " ") >= 2
         THEN << " " >> \o CollapseSpaces(s, i + RunLen(s, i, " "))
         ELSE << s[i] >> \o CollapseSpaces(s, i + 1)

\* The text branch: cleaned, then normalised.
CleanText(r) ==
    normalize_fill_zones(strip(CollapseSpaces(StripTags(r, 1), 1)))

PostText ==
    /\ pc = "post"
    /\ fmt = "text"
    /\ all_text_results' = Append(all_text_results, CleanText(main_raw))
    /\ idx' = idx + 1
    /\ pc' = "loop"
    /\ UNCHANGED << fmt, to_file, is_pdf, images, main_raw, all_json_results,
                    output, dest, exc >>
    /\ UNCHANGED << nfVars, prVars, stVars, pbVars, iaVars >>

PostHtml ==
    /\ pc = "post"
    /\ fmt = "html"
    /\ all_text_results' = Append(all_text_results, normalize_fill_zones(main_raw))
    /\ idx' = idx + 1
    /\ pc' = "loop"
    /\ UNCHANGED << fmt, to_file, is_pdf, images, main_raw, all_json_results,
                    output, dest, exc >>
    /\ UNCHANGED << nfVars, prVars, stVars, pbVars, iaVars >>

\* <!DOCTYPE html>\n<html>\n<head><meta charset="UTF-8"></head>\n<body>\n
HtmlHead ==
    << "<", "!", "D", "O", "C", "T", "Y", "P", "E", " ", "h", "t", "m", "l",
       ">", "\n", "<", "h", "t", "m", "l", ">", "\n", "<", "h", "e", "a",
       "d", ">", "<", "m", "e", "t", "a", " ", "c", "h", "a", "r", "s", "e",
       "t", "=", "\"", "U", "T", "F", "-", "8", "\"", ">", "<", "/", "h",
       "e", "a", "d", ">", "\n", "<", "b", "o", "d", "y", ">", "\n" >>
\* \n</body>\n</html>
HtmlTail ==
    << "\n", "<", "/", "b", "o", "d", "y", ">", "\n", "<", "/", "h", "t",
       "m", "l", ">" >>

\* A plausible slip: the pages joined by a single newline.
SingleNewline == << "\n" >>

\* "\n\n"
BlankLine == << "\n", "\n" >>

\* A plausible slip: a single page is not flattened.
JsonDocumentNested(results) == List(results)

\* The value json.dumps is given: one page is flattened to its regions.
JsonDocument(results) ==
    IF Len(results) = 1 THEN GetKey(results[1], KeyRegions)
    ELSE List(results)

\* `output` for the format.
FormatOutput(format, text_results, json_results) ==
    IF format = "json" THEN json_dumps(JsonDocument(json_results))
    ELSE IF format = "html"
    THEN HtmlHead \o join(BlankLine, text_results) \o HtmlTail
    ELSE join(BlankLine, text_results)

\* The page loop is over: the output is formatted.
Assemble ==
    /\ pc = "loop"
    /\ idx = Len(images)
    /\ output' = FormatOutput(fmt, all_text_results, all_json_results)
    /\ pc' = "write"
    /\ UNCHANGED << fmt, to_file, is_pdf, images, idx, main_raw, all_text_results,
                    all_json_results, dest, exc >>
    /\ UNCHANGED << nfVars, prVars, stVars, pbVars, iaVars >>

\* Path(args.output).write_text(output), or print(output).
WriteOutput ==
    /\ pc = "write"
    /\ dest' = IF to_file THEN [kind |-> "file", content |-> output]
               ELSE [kind |-> "stdout", content |-> output \o << "\n" >>]
    /\ pc' = "done"
    /\ UNCHANGED << fmt, to_file, is_pdf, images, idx, main_raw, all_text_results,
                    all_json_results, output, exc >>
    /\ UNCHANGED << nfVars, prVars, stVars, pbVars, iaVars >>

----------------------------------------------------------------------------
(* Interactive mode: run_interactive of ask.py.  A message is              *)
(* [role, text, image]: the first user message carries the question and    *)
(* the image block, every other message a string.                          *)

\* {"role": "system", "content": BATCH_SYSTEM}
SystemMessage == [role |-> "system", text |-> << "S" >>, image |-> FALSE]

\* {"role": "user", "content": content}
UserMessage(text, with_image) ==
    [role |-> "user", text |-> text, image |-> with_image]

\* {"role": "assistant", "content": answer}
AssistantMessage(answer) ==
    [role |-> "assistant", text |-> answer, image |-> FALSE]

\* str.lower() on the letters of the input lines.
LowerChar(c) ==
    IF c = "Q" THEN "q" ELSE IF c = "U" THEN "u" ELSE IF c = "I" THEN "i"
    ELSE IF c = "T" THEN "t" ELSE IF c = "E" THEN "e" ELSE IF c = "X" THEN "x"
    ELSE c

lower(s) == [n \in 1..Len(s) |-> LowerChar(s[n])]

\* ("quit", "exit", "q")
QuitWords ==
    { << "q", "u", "i", "t" >>, << "e", "x", "i", "t" >>, << "q" >> }

\* `not question or question.lower() in ("quit", "exit", "q")`
EndsLoop(q) == q = <<>> \/ lower(q) \in QuitWords

\* The lines input() may return.
InputLines ==
    { <<>>, << " " >>, << "q" >>, << "Q", " " >>, << "Q", "u", "i", "t" >>,
      << "e", "x", "i", "t" >>, << "a" >>, << " ", "b" >>, << "q", "a" >> }

\* The answers the stream may add up to.
Answers == { <<>>, << "1" >>, << "n", "o" >> }

MaxTurns == 3

\* run_interactive is entered: messages holds the system message.
StartInteractive ==
    /\ ia_pc = "idle"
    /\ messages' = << SystemMessage >>
    /\ first_turn' = TRUE
    /\ ia_pc' = "input"
    /\ UNCHANGED question
    /\ UNCHANGED << nfVars, prVars, stVars, pbVars, mainVars >>

\* input() raises EOFError, or the line is blank or a quit word: break.
InputEnds ==
    /\ ia_pc = "input"
    /\ \E eof \in BOOLEAN : \E line \in InputLines :
          /\ eof \/ EndsLoop(strip(line))
          /\ question' = IF eof THEN question ELSE strip(line)
    /\ ia_pc' = "ended"
    /\ UNCHANGED << messages, first_turn >>
    /\ UNCHANGED << nfVars, prVars, stVars, pbVars, mainVars >>

\* A plausible slip: the image is attached to every user message.
AskQuestionWithImage ==
    /\ ia_pc = "input"
    /\ Len(messages) < 1 + 2 * MaxTurns
    /\ \E line \in InputLines :
          /\ ~EndsLoop(strip(line))
          /\ question' = strip(line)
          /\ messages' = Append(messages, UserMessage(strip(line), TRUE))
    /\ first_turn' = FALSE
    /\ ia_pc' = "request"
    /\ UNCHANGED << nfVars, prVars, stVars, pbVars, mainVars >>

\* A question is read and appended as a user message, with the image on
\* the first turn only.
AskQuestion ==
    /\ ia_pc = "input"
    /\ Len(messages) < 1 + 2 * MaxTurns
    /\ \E line \in InputLines :
          /\ ~EndsLoop(strip(line))
          /\ question' = strip(line)
          /\ messages' = Append(messages, UserMessage(strip(line), first_turn))
    /\ first_turn' = FALSE
    /\ ia_pc' = "request"
    /\ UNCHANGED << nfVars, prVars, stVars, pbVars, mainVars >>

\* The stream is consumed and the answer appended as an assistant message.
AnswerArrives ==
    /\ ia_pc = "request"
    /\ \E answer \in Answers :
          messages' = Append(messages, AssistantMessage(answer))
    /\ ia_pc' = "input"
    /\ UNCHANGED << first_turn, question >>
    /\ UNCHANGED << nfVars, prVars, stVars, pbVars, mainVars >>

\* The request or its stream raises: nothing catches it.
RequestFails ==
    /\ ia_pc = "request"
    /\ ia_pc' = "crashed"
    /\ UNCHANGED << messages, first_turn, question >>
    /\ UNCHANGED << nfVars, prVars, stVars, pbVars, mainVars >>

----------------------------------------------------------------------------
(* Specifications: one per component, each with its own inputs.  A part a  *)
(* specification does not exercise keeps its idle value.                   *)

MaxSelLen == 4
MaxTotal == 3
MaxPages == 2

SelAlphabet == { "0", "1", "3", ",", "-", " " }

Selectors ==
    StringsUpTo(SelAlphabet, MaxSelLen) \cup { SelMixed, SelClamped, SelDuplicates }

Totals == 1..MaxTotal \cup { 5, 10 }

PagesArgs(sels) ==
    { [given |-> FALSE, spec |-> <<>>] }
    \cup { [given |-> TRUE, spec |-> sel] : sel \in sels }

\* The selectors of the runs of main: 1 | 1-2 | 2,1 | 0-1 | 7 | x
MainSelectors ==
    { << "1" >>, << "1", "-", "2" >>, << "2", ",", "1" >>, << "0", "-", "1" >>,
      << "7" >>, << "x" >> }

NoDest == [kind |-> "none", content |-> <<>>]

InitNorm ==
    /\ nf_in \in StringsUpTo(FillAlphabet, MaxFillLen) \cup { FillExample }
    /\ nf_hist = <<>>
    /\ pr_pages = [given |-> FALSE, spec |-> <<>>]
    /\ pr_total = 1
    /\ pr_result = [ok |-> TRUE, pages |-> <<>>]
    /\ st_stream = <<>> /\ st_pos = 0 /\ parts = <<>> /\ finish_reason = "None"
    /\ st_warned = FALSE /\ st_ret = <<>> /\ st_pc = "idle"
    /\ pb_raw = <<>> /\ pb_result = Null /\ pb_pc = "idle"
    /\ messages = <<>> /\ first_turn = TRUE /\ question = <<>> /\ ia_pc = "idle"
    /\ pc = "idle" /\ fmt = "text" /\ to_file = FALSE /\ is_pdf = TRUE
    /\ images = <<>> /\ idx = 0 /\ main_raw = <<>> /\ all_text_results = <<>>
    /\ all_json_results = <<>> /\ output = <<>> /\ dest = NoDest /\ exc = "None"

NextNorm == NormalizeCall

SpecNorm == InitNorm /\ [][NextNorm]_vars

InitRange ==
    /\ pr_pages \in PagesArgs(Selectors)
    /\ pr_total \in Totals
    /\ pr_result = [ok |-> TRUE, pages |-> <<>>]
    /\ nf_in = <<>> /\ nf_hist = <<>>
    /\ st_stream = <<>> /\ st_pos = 0 /\ parts = <<>> /\ finish_reason = "None"
    /\ st_warned = FALSE /\ st_ret = <<>> /\ st_pc = "idle"
    /\ pb_raw = <<>> /\ pb_result = Null /\ pb_pc = "idle"
    /\ messages = <<>> /\ first_turn = TRUE /\ question = <<>> /\ ia_pc = "idle"
    /\ pc = "select" /\ fmt = "text" /\ to_file = FALSE /\ is_pdf = TRUE
    /\ images = <<>> /\ idx = 0 /\ main_raw = <<>> /\ all_text_results = <<>>
    /\ all_json_results = <<>> /\ output = <<>> /\ dest = NoDest /\ exc = "None"

NextRange == ResolvePages

SpecRange == InitRange /\ [][NextRange]_vars

InitStream ==
    /\ st_stream \in UNION { [1..n -> StreamChunks] : n \in 0..MaxChunks }
    /\ st_pos = 0 /\ parts = <<>> /\ finish_reason = "None"
    /\ st_warned = FALSE /\ st_ret = <<>> /\ st_pc = "iter"
    /\ nf_in = <<>> /\ nf_hist = <<>>
    /\ pr_pages = [given |-> FALSE, spec |-> <<>>]
    /\ pr_total = 1
    /\ pr_result = [ok |-> TRUE, pages |-> <<>>]
    /\ pb_raw = <<>> /\ pb_result = Null /\ pb_pc = "idle"
    /\ messages = <<>> /\ first_turn = TRUE /\ question = <<>> /\ ia_pc = "idle"
    /\ pc = "idle" /\ fmt = "text" /\ to_file = FALSE /\ is_pdf = TRUE
    /\ images = <<>> /\ idx = 0 /\ main_raw = <<>> /\ all_text_results = <<>>
    /\ all_json_results = <<>> /\ output = <<>> /\ dest = NoDest /\ exc = "None"

NextStream == StreamNext \/ StreamReturn

SpecStream == InitStream /\ [][NextStream]_vars

InitParse ==
    /\ pb_raw \in RawInputs
    /\ pb_result = Null
    /\ pb_pc = "init"
    /\ nf_in = <<>> /\ nf_hist = <<>>
    /\ pr_pages = [given |-> FALSE, spec |-> <<>>]
    /\ pr_total = 1
    /\ pr_result = [ok |-> TRUE, pages |-> <<>>]
    /\ st_stream = <<>> /\ st_pos = 0 /\ parts = <<>> /\ finish_reason = "None"
    /\ st_warned = FALSE /\ st_ret = <<>> /\ st_pc = "idle"
    /\ pc = "idle" /\ fmt = "text" /\ to_file = FALSE /\ is_pdf = TRUE
    /\ images = <<>> /\ idx = 0 /\ main_raw = <<>> /\ all_text_results = <<>>
    /\ all_json_results = <<>> /\ output = <<>> /\ dest = NoDest /\ exc = "None"
    /\ messages = <<>> /\ first_turn = TRUE /\ question = <<>> /\ ia_pc = "idle"

NextParse == ParseCall

SpecParse == InitParse /\ [][NextParse]_vars

\* The text branch on its own: an image input in text format, at the point
\* where ocr_image_base64 has returned raw for it.
MaxCleanLen == 4

InitClean ==
    /\ main_raw \in StringsUpTo({ "<", ">", " ", "\n", "\t", "a", "." },
                                MaxCleanLen)
                    \cup MainRaws \cup { RawMarkupParagraphs }
    /\ pc = "post" /\ fmt = "text" /\ to_file \in BOOLEAN /\ is_pdf = FALSE
    /\ images = << [label |-> ImageName, page |-> 0] >> /\ idx = 0
    /\ all_text_results = <<>> /\ all_json_results = <<>> /\ output = <<>>
    /\ dest = NoDest /\ exc = "None"
    /\ pr_pages = [given |-> FALSE, spec |-> <<>>]
    /\ pr_total = 1
    /\ pr_result = [ok |-> TRUE, pages |-> <<>>]
    /\ nf_in = <<>> /\ nf_hist = <<>>
    /\ st_stream = <<>> /\ st_pos = 0 /\ parts = <<>> /\ finish_reason = "None"
    /\ st_warned = FALSE /\ st_ret = <<>> /\ st_pc = "idle"
    /\ pb_raw = <<>> /\ pb_result = Null /\ pb_pc = "idle"
    /\ messages = <<>> /\ first_turn = TRUE /\ question = <<>> /\ ia_pc = "idle"

NextClean == PostText \/ Assemble \/ WriteOutput

SpecClean == InitClean /\ [][NextClean]_vars

\* ask.py --interactive, when main calls run_interactive.
InitAsk ==
    /\ messages = <<>> /\ first_turn = TRUE /\ question = <<>> /\ ia_pc = "idle"
    /\ nf_in = <<>> /\ nf_hist = <<>>
    /\ pr_pages = [given |-> FALSE, spec |-> <<>>]
    /\ pr_total = 1
    /\ pr_result = [ok |-> TRUE, pages |-> <<>>]
    /\ st_stream = <<>> /\ st_pos = 0 /\ parts = <<>> /\ finish_reason = "None"
    /\ st_warned = FALSE /\ st_ret = <<>> /\ st_pc = "idle"
    /\ pb_raw = <<>> /\ pb_result = Null /\ pb_pc = "idle"
    /\ pc = "idle" /\ fmt = "text" /\ to_file = FALSE /\ is_pdf = FALSE
    /\ images = <<>> /\ idx = 0 /\ main_raw = <<>> /\ all_text_results = <<>>
    /\ all_json_results = <<>> /\ output = <<>> /\ dest = NoDest /\ exc = "None"

NextAsk ==
    StartInteractive \/ InputEnds \/ AskQuestion \/ AnswerArrives \/ RequestFails

SpecAsk == InitAsk /\ [][NextAsk]_vars

Init ==
    /\ is_pdf \in BOOLEAN
    /\ pr_pages \in IF is_pdf THEN PagesArgs(MainSelectors)
                    ELSE { [given |-> FALSE, spec |-> <<>>] }
    /\ pr_total \in IF is_pdf THEN 1..MaxPages ELSE {1}
    /\ pr_result = [ok |-> TRUE, pages |-> <<>>]
    /\ fmt \in { "text", "html", "json" }
    /\ to_file \in BOOLEAN
    /\ pc = "select"
    /\ images = <<>> /\ idx = 0 /\ main_raw = <<>> /\ all_text_results = <<>>
    /\ all_json_results = <<>> /\ output = <<>> /\ dest = NoDest /\ exc = "None"
    /\ nf_in = <<>> /\ nf_hist = <<>>
    /\ st_stream = <<>> /\ st_pos = 0 /\ parts = <<>> /\ finish_reason = "None"
    /\ st_warned = FALSE /\ st_ret = <<>> /\ st_pc = "idle"
    /\ pb_raw = <<>> /\ pb_result = Null /\ pb_pc = "idle"
    /\ messages = <<>> /\ first_turn = TRUE /\ question = <<>> /\ ia_pc = "idle"

Next ==
    \/ ResolvePages
    \/ LoadImage
    \/ RenderPage
    \/ RenderOutside
    \/ BeginLoop
    \/ OcrRequest
    \/ OcrRequestFails
    \/ PostJson
    \/ PostJsonRaises
    \/ PostText
    \/ PostHtml
    \/ Assemble
    \/ WriteOutput

Spec == Init /\ [][Next]_vars

----------------------------------------------------------------------------
(* The claims.                                                             *)

\* C1 (as claimed): in json format no shape of model output aborts the
\* batch: main ends early only on an input, rendering or transport error,
\* never on the AttributeError of the fill-zone loop over regions.
C1_ShapeErrorsNeverAbort ==
    (fmt = "json" /\ pc = "crashed")
        => exc \in { "ValueError", "PdfiumError", "APIError" }

\* No bracket-delimited substring of text parses as JSON.
NoBracketedJson(text) ==
    \A p \in 1..Len(text) : \A q \in 1..Len(text) :
        (p < q /\ text[p] = "[" /\ text[q] = "]")
            => ~json_loads(SubSeq(text, p, q)).ok

\* [{"text": raw, "bbox": None, "parse_error": True}], written out.
ExpectedFallback(original) ==
    [k |-> "list",
     v |-> << [k |-> "dict",
               v |-> << [key |-> KeyText, val |-> [k |-> "str", v |-> original]],
                        [key |-> KeyBbox, val |-> Null],
                        [key |-> KeyParseError, val |-> [k |-> "bool", v |-> TRUE]]
                     >>] >>]

\* C2: when neither the fence-stripped text nor any bracket-delimited
\* substring of it parses as JSON, parse_bbox_response returns exactly one
\* chunk: text the unmodified raw string, bbox null, parse_error true.
C2_RepairFailureIsData ==
    (/\ pb_pc = "returned"
     /\ ~json_loads(FenceStripped(pb_raw)).ok
     /\ NoBracketedJson(FenceStripped(pb_raw)))
        => pb_result = ExpectedFallback(pb_raw)

\* C2 witness: the fallback was returned for a raw string that stripping
\* would have changed.
C2_Witness ==
    /\ pb_pc = "returned"
    /\ ~json_loads(FenceStripped(pb_raw)).ok
    /\ NoBracketedJson(FenceStripped(pb_raw))
    /\ strip(pb_raw) # pb_raw
    /\ pb_result = ExpectedFallback(pb_raw)

\* A bbox: absent, null, or a list of exactly four numbers.
ValidBbox(c) ==
    HasKey(c, KeyBbox)
        => \/ GetKey(c, KeyBbox) = Null
           \/ /\ IsList(GetKey(c, KeyBbox))
              /\ Len(GetKey(c, KeyBbox).v) = 4
              /\ \A n \in 1..4 : IsNum(GetKey(c, KeyBbox).v[n])

\* A Chunk: an object with a string text and a valid bbox.
ValidChunk(c) ==
    /\ IsDict(c)
    /\ HasKey(c, KeyText)
    /\ IsStr(GetKey(c, KeyText))
    /\ ValidBbox(c)

\* C3 (as claimed): every element parse_bbox_response returns is a valid
\* Chunk.
C3_EveryElementIsAChunk ==
    pb_pc = "returned"
        => /\ IsList(pb_result)
           /\ \A n \in 1..Len(pb_result.v) : ValidChunk(pb_result.v[n])

\* s holds four or more "_" in a row.
HasUnderscoreRun(s) ==
    \E i \in 1..(Len(s) - 3) : \A n \in i..(i + 3) : s[n] = "_"

\* C4 (as claimed): normalising a normalised text changes nothing.
C4_Idempotent ==
    Len(nf_hist) >= 2 => nf_hist[2] = nf_hist[1]

\* C4 (amended): normalising a normalised text changes nothing exactly when
\* the normalised text holds no run of four or more underscores, and a
\* twice-normalised text is a fixed point.
C4_IdempotentFromSecondPass ==
    /\ Len(nf_hist) >= 2
          => (nf_hist[2] = nf_hist[1] <=> ~HasUnderscoreRun(nf_hist[1]))
    /\ Len(nf_hist) >= 3 => nf_hist[3] = nf_hist[2]

\* C4 witness: collapsed runs ended up adjacent, the second pass changed
\* the text and the third did not.
C4_Witness ==
    /\ Len(nf_hist) >= 3
    /\ nf_hist[1] # nf_in
    /\ nf_hist[2] # nf_hist[1]
    /\ nf_hist[3] = nf_hist[2]

\* A selector was given and parse_page_range returned.
SelectorAccepted ==
    pc = "render" /\ pr_pages.given /\ pr_pages.spec # <<>>

\* C5 (as claimed): an accepted selector yields a strictly ascending
\* selection within 1..total.
C5_SelectionWithinRange ==
    SelectorAccepted
        => /\ \A n \in 1..(Len(pr_result.pages) - 1) :
                 pr_result.pages[n] < pr_result.pages[n + 1]
           /\ \A n \in 1..Len(pr_result.pages) :
                 1 <= pr_result.pages[n] /\ pr_result.pages[n] <= pr_total

\* The text of json.loads decodes to a dict whose "text" is a list or a
\* string that decodes to a list.
HoldsTextList(d) ==
    /\ IsDict(d)
    /\ HasKey(d, KeyText)
    /\ \/ IsList(GetKey(d, KeyText))
       \/ /\ IsStr(GetKey(d, KeyText))
          /\ json_loads(GetKey(d, KeyText).v).ok
          /\ IsList(json_loads(GetKey(d, KeyText).v).val)

\* The fence-stripped text parses to a value of any other shape.
OtherShape(original) ==
    /\ json_loads(FenceStripped(original)).ok
    /\ ~IsList(json_loads(FenceStripped(original)).val)
    /\ ~HoldsTextList(json_loads(FenceStripped(original)).val)

\* Steps 3 and 4: the greedy bracket-delimited substring when it parses to
\* a list, else the fallback chunk.
StepsThreeFour(original) ==
    LET text == FenceStripped(original)
        first == IndexFrom(text, "[", 1)
        last == LastIndexFrom(text, "]", Len(text))
    IN  IF /\ first # 0 /\ last > first
           /\ json_loads(SubSeq(text, first, last)).ok
           /\ IsList(json_loads(SubSeq(text, first, last)).val)
        THEN json_loads(SubSeq(text, first, last)).val
        ELSE ExpectedFallback(original)

DoubleWrapped(d) ==
    /\ Len(d.v) = 1
    /\ d.v[1].k = "dict"
    /\ \E n \in 1..Len(d.v[1].v) : d.v[1].v[n].key = KeyText
    /\ \A n \in 1..Len(d.v[1].v) : d.v[1].v[n].key # KeyBbox
    /\ \A n \in 1..Len(d.v[1].v) :
          d.v[1].v[n].key = KeyText
              => /\ d.v[1].v[n].val.k = "str"
                 /\ json_loads(d.v[1].v[n].val.v).ok
                 /\ json_loads(d.v[1].v[n].val.v).val.k = "list"

\* The list the text of a double-wrapped list decodes to.
InnerOf(d) == json_loads(GetKey(d.v[1], KeyText).v).val

\* The fence-stripped text parses to a list.
ParsesToList(original) ==
    /\ json_loads(FenceStripped(original)).ok
    /\ IsList(json_loads(FenceStripped(original)).val)

\* C7: a parsed list is replaced by the inner list exactly when it is
\* double-wrapped; any other parsed list is returned unchanged.
C7_UnwrapOnlyDoubleWrapped ==
    (pb_pc = "returned" /\ ParsesToList(pb_raw))
        => LET data == json_loads(FenceStripped(pb_raw)).val
           IN  /\ DoubleWrapped(data) => pb_result = InnerOf(data)
               /\ ~DoubleWrapped(data) => pb_result = data
               /\ (pb_result # data) => DoubleWrapped(data)

\* C7 witness: a double-wrapped list was unwrapped to its chunks.
C7_Witness ==
    /\ pb_pc = "returned"
    /\ ParsesToList(pb_raw)
    /\ DoubleWrapped(json_loads(FenceStripped(pb_raw)).val)
    /\ pb_result = InnerOf(json_loads(FenceStripped(pb_raw)).val)
    /\ Len(pb_result.v) = 1
    /\ ValidChunk(pb_result.v[1])

\* The reference fold: every present delta, in arrival order.
RECURSIVE RefText(_)
RefText(stream) ==
    IF stream = <<>> THEN <<>>
    ELSE LET last == stream[Len(stream)]
         IN  RefText(SubSeq(stream, 1, Len(stream) - 1))
             \o (IF last.choices /\ last.content.some THEN last.content.chars
                 ELSE <<>>)

\* The most recently observed terminal reason, "None" if there was none.
RECURSIVE RefReason(_)
RefReason(stream) ==
    IF stream = <<>> THEN "None"
    ELSE LET last == stream[Len(stream)]
         IN  IF last.choices /\ last.finish # "None" THEN last.finish
             ELSE RefReason(SubSeq(stream, 1, Len(stream) - 1))

\* C8: the returned text is the reference fold of the stream, and the
\* truncation warning is emitted exactly when the most recently observed
\* terminal reason is "length".
C8_StreamFold ==
    st_pc = "done"
        => /\ st_ret = RefText(st_stream)
           /\ st_warned <=> (RefReason(st_stream) = "length")

\* C8 witness: a text split over two chunks, a "stop" overridden by a later
\* "length", and the warning emitted.
C8_Witness ==
    /\ st_pc = "done"
    /\ st_ret = << "a", "b" >>
    /\ st_warned
    /\ \E n \in 1..Len(st_stream) :
          st_stream[n].choices /\ st_stream[n].finish = "stop"
    /\ \E n \in 1..Len(st_stream) : ~st_stream[n].choices

\* The {source, regions} object of the n-th processed page.
ExpectedEntry(n) ==
    [k |-> "dict",
     v |-> << [key |-> KeySource, val |-> [k |-> "str", v |-> images[n].label]],
              [key |-> KeyRegions, val |-> GetKey(all_json_results[n], KeyRegions)]
           >>]

\* C9: the json output decodes to the bare chunk array of the page when one
\* page was processed, and otherwise to one {source, regions} object per
\* processed page, in processing order.
C9_JsonAssembly ==
    (fmt = "json" /\ pc \in { "write", "done" })
        => /\ Len(all_json_results) = Len(images)
           /\ json_loads(output).ok
           /\ json_loads(output).val =
                 IF Len(images) = 1 THEN GetKey(all_json_results[1], KeyRegions)
                 ELSE [k |-> "list",
                       v |-> [n \in 1..Len(images) |-> ExpectedEntry(n)]]

\* C9 witness: two pages were processed and written as two objects.
C9_Witness ==
    /\ fmt = "json"
    /\ pc = "done"
    /\ Len(images) = 2
    /\ images[1].label # images[2].label
    /\ Len(json_loads(output).val.v) = 2
    /\ dest.kind = "file"
    /\ dest.content = output

\* What one token of a selector contributes, by the reference resolver.
TokenPages(token, total) ==
    LET part == strip(token)
        dash == IndexFrom(part, "-", 1)
        start == int(Slice(part, 1, dash - 1)).val
        end == int(Slice(part, dash + 1, Len(part))).val
    IN  IF dash # 0
        THEN start..(IF end < total THEN end ELSE total)
        ELSE IF 1 <= int(part).val /\ int(part).val <= total
             THEN { int(part).val }
             ELSE {}

\* The reference resolver: the union over the comma-separated tokens.
RefPages(selector, total) ==
    UNION { TokenPages(split(selector, ",")[n], total) :
              n \in 1..Len(split(selector, ",")) }

RECURSIVE RunStart(_, _)
RunStart(s, k) ==
    IF k > 1 /\ s[k - 1] = s[Len(s)] THEN RunStart(s, k - 1) ELSE k

\* The text rebuilt run by run from its end: a maximal run of four or more
\* identical ".", "-" or "_" becomes "___", any other run is kept.
RECURSIVE CollapsedRuns(_)
CollapsedRuns(s) ==
    IF s = <<>> THEN <<>>
    ELSE LET k == RunStart(s, Len(s))
         IN  CollapsedRuns(SubSeq(s, 1, k - 1))
             \o (IF s[Len(s)] \in { ".", "-", "_" } /\ Len(s) - k + 1 >= 4
                 THEN << "_", "_", "_" >>
                 ELSE SubSeq(s, k, Len(s)))

\* C11: normalize_fill_zones replaces every maximal run of four or more
\* identical fill characters by "___" and leaves every other character
\* unchanged and in place; "Name...........: John" becomes "Name___: John".
C11_CollapsesMaximalRuns ==
    Len(nf_hist) >= 1
        => /\ nf_hist[1] = CollapsedRuns(nf_in)
           /\ nf_in = FillExample
                 => nf_hist[1] = << "N", "a", "m", "e", "_", "_", "_", ":",
                                   " ", "J", "o", "h", "n" >>

\* C11 witness: a run of four dots was collapsed and the two dashes after
\* it, a shorter run of another fill character, were kept.
C11_Witness ==
    /\ Len(nf_hist) >= 1
    /\ nf_in = << ".", ".", ".", ".", "-", "-" >>
    /\ nf_hist[1] = << "_", "_", "_", "-", "-" >>

\* original is a first line starting with the fence marker, a body, and a
\* last line that is the bare fence marker.
IsFencedForm(original) ==
    /\ Len(original) >= 8
    /\ SubSeq(original, 1, 3) = << Grave, Grave, Grave >>
    /\ SubSeq(original, Len(original) - 3, Len(original))
          = << "\n", Grave, Grave, Grave >>
    /\ \E n \in 4..(Len(original) - 4) : original[n] = "\n"

\* The body T of a text of the fenced form.
FenceBody(original) ==
    LET n == CHOOSE n \in 4..(Len(original) - 4) :
                 /\ original[n] = "\n"
                 /\ \A j \in 4..(n - 1) : original[j] # "\n"
    IN  SubSeq(original, n + 1, Len(original) - 4)

\* T is trimmed and does not itself start with a fence marker.
PlainBody(body) ==
    /\ strip(body) = body
    /\ ~(Len(body) >= 3 /\ SubSeq(body, 1, 3) = << Grave, Grave, Grave >>)

\* The part of text after its first line; empty when it has one line.
AfterFirstLine(text) ==
    IF \E n \in 1..Len(text) : text[n] = "\n"
    THEN SubSeq(text,
                1 + (CHOOSE n \in 1..Len(text) :
                        /\ text[n] = "\n"
                        /\ \A j \in 1..(n - 1) : text[j] # "\n"),
                Len(text))
    ELSE <<>>

\* The last line of text, trimmed.
LastLineTrimmed(text) ==
    LET after == { n \in 1..Len(text) : text[n] = "\n" }
        from == IF after = {} THEN 1
                ELSE 1 + (CHOOSE n \in after : \A j \in after : j <= n)
    IN  strip(SubSeq(text, from, Len(text)))

\* The fence is stripped only when the trimmed text starts with the fence
\* marker, and the last line is kept unless it is a bare fence marker.
StrippedOnlyWhenFenced(original) ==
    /\ ~startswith(strip(original), << Grave, Grave, Grave >>)
          => FenceStripped(original) = strip(original)
    /\ (/\ startswith(strip(original), << Grave, Grave, Grave >>)
        /\ LastLineTrimmed(AfterFirstLine(strip(original)))
              # << Grave, Grave, Grave >>)
          => FenceStripped(original) = AfterFirstLine(strip(original))

\* C12 (as claimed): a fenced text resolves to the list its body resolves
\* to, whatever the body; the fence is stripped only when the trimmed text
\* starts with the fence marker and the last line is dropped only when it
\* is a bare fence marker.
C12_FenceTransparent ==
    pb_pc = "returned"
        => /\ IsFencedForm(pb_raw)
                 => pb_result = parse_bbox_response(FenceBody(pb_raw))
           /\ StrippedOnlyWhenFenced(pb_raw)

\* C12 (amended): a fenced text resolves to the list its body resolves to
\* when the body parses as JSON as a whole, or is trimmed, starts with no
\* fence marker and does not end in the fallback chunk; a trimmed body
\* without fence marker that ends in the fallback chunk gives a fallback
\* chunk too, carrying the fenced text and not the body.
C12_FenceTransparentForJson ==
    pb_pc = "returned"
        => /\ (/\ IsFencedForm(pb_raw)
               /\ \/ json_loads(FenceBody(pb_raw)).ok
                  \/ /\ PlainBody(FenceBody(pb_raw))
                     /\ parse_bbox_response(FenceBody(pb_raw))
                           # ExpectedFallback(FenceBody(pb_raw)))
                 => pb_result = parse_bbox_response(FenceBody(pb_raw))
           /\ (/\ IsFencedForm(pb_raw)
               /\ PlainBody(FenceBody(pb_raw))
               /\ parse_bbox_response(FenceBody(pb_raw))
                     = ExpectedFallback(FenceBody(pb_raw)))
                 => /\ pb_result = ExpectedFallback(pb_raw)
                    /\ pb_result # parse_bbox_response(FenceBody(pb_raw))
           /\ StrippedOnlyWhenFenced(pb_raw)

\* C12 witness: a double-wrapped list inside a tagged fence was resolved
\* to the chunks the bare double-wrapped list resolves to.
C12_Witness ==
    /\ pb_pc = "returned"
    /\ IsFencedForm(pb_raw)
    /\ pb_raw[4] = "j"
    /\ FenceBody(pb_raw) = RawDoubleWrapped
    /\ pb_result = parse_bbox_response(RawDoubleWrapped)
    /\ pb_result # json_loads(RawDoubleWrapped).val

\* A text run over a PDF with a selector has left the page loop.
TextRunAssembled ==
    /\ fmt = "text"
    /\ is_pdf
    /\ pr_pages.given /\ pr_pages.spec # <<>>
    /\ pc \in { "write", "done" }

\* One result per selected page, the pages in ascending order.
OneResultPerPage ==
    /\ Len(images) = Len(pr_result.pages)
    /\ Len(all_text_results) = Len(pr_result.pages)
    /\ \A n \in 1..Len(images) :
          /\ images[n].page = pr_result.pages[n]
          /\ n > 1 => images[n - 1].page < images[n].page

\* The number of places where output holds an empty line.
BlankLines(text) ==
    Cardinality({ n \in 1..(Len(text) - 1) :
                    text[n] = "\n" /\ text[n + 1] = "\n" })

\* The page results with "\n\n" between consecutive ones, built from the
\* last page backwards.
RECURSIVE PagesWithBlankLines(_)
PagesWithBlankLines(results) ==
    IF results = <<>> THEN <<>>
    ELSE IF Len(results) = 1 THEN results[1]
    ELSE PagesWithBlankLines(SubSeq(results, 1, Len(results) - 1))
         \o << "\n", "\n" >> \o results[Len(results)]

WritesOnceAtTheEnd ==
    /\ pc # "crashed"
    /\ (pc = "loop" /\ pc' = "post") => (exc = "None" /\ idx' = idx)
    /\ dest' # dest
          => /\ dest = [kind |-> "none", content |-> <<>>]
             /\ pc = "write"
             /\ idx = Len(images)
             /\ Len(all_text_results) + Len(all_json_results) = Len(images)
             /\ dest'.content \in { output, output \o << "\n" >> }

\* C14: once a request has failed nothing more happens: no retry, no
\* request for a later page, no write; the result destination is written
\* at most once, after every selected page has been processed, and never
\* on a run that failed.
C14_NoPartialOutput ==
    /\ [](exc # "None"
            => pc = "crashed" /\ dest = [kind |-> "none", content |-> <<>>])
    /\ [](dest # [kind |-> "none", content |-> <<>>]
            => pc = "done" /\ idx = Len(images))
    /\ [][WritesOnceAtTheEnd]_vars

\* C14 witness: the request for the second page failed after the first
\* page was completed, and nothing was written.
C14_Witness ==
    /\ pc = "crashed"
    /\ exc = "APIError"
    /\ Len(images) = 2
    /\ idx = 1
    /\ Len(all_text_results) = 1
    /\ all_text_results[1] # <<>>
    /\ dest = [kind |-> "none", content |-> <<>>]
    /\ output = <<>>

\* C15 (as claimed): pages are processed strictly one at a time: a page is
\* rendered only when every page rendered before it has its result, so at
\* most one rendered page is waiting for its result.
C15_OnePageAtATime ==
    Len(images) <= Len(all_text_results) + Len(all_json_results) + 1

\* text holds a markup tag: "<", one or more characters other than ">",
\* then ">".
HasTag(text) ==
    \E i \in 1..Len(text) : \E j \in (i + 2)..Len(text) :
        /\ text[i] = "<"
        /\ text[j] = ">"
        /\ \A n \in (i + 1)..(j - 1) : text[n] # ">"

\* text holds two consecutive characters of the set.
HasPairOf(text, set) ==
    \E n \in 1..(Len(text) - 1) : text[n] \in set /\ text[n + 1] \in set

\* text holds four or more identical dots or dashes in a row.
HasFillRun(text) ==
    \E n \in 1..(Len(text) - 3) :
        /\ text[n] \in { ".", "-" }
        /\ \A j \in (n + 1)..(n + 3) : text[j] = text[n]

\* The text of the page has been accumulated.
TextAccumulated ==
    fmt = "text" /\ pc \in { "loop", "write", "done" } /\ Len(all_text_results) = 1

\* C16 (as claimed): the accumulated page text holds no markup tag and no
\* run of two or more whitespace characters (spaces, tabs or newlines),
\* and is normalised.
C16_NoTagNoWhitespaceRun ==
    TextAccumulated
        => /\ ~HasTag(all_text_results[1])
           /\ ~HasPairOf(all_text_results[1], { " ", "\t", "\n" })
           /\ ~HasFillRun(all_text_results[1])

\* C16 (amended): the accumulated page text holds no markup tag and no run
\* of two or more spaces, is trimmed and is normalised; tabs and newlines
\* are not collapsed, so a text whose raw form holds no tab, no newline and
\* no tag holds no whitespace run either.
C16_NoTagNoSpaceRun ==
    TextAccumulated
        => /\ ~HasTag(all_text_results[1])
           /\ ~HasPairOf(all_text_results[1], { " " })
           /\ ~HasFillRun(all_text_results[1])
           /\ all_text_results[1] # <<>>
                 => /\ all_text_results[1][1] \notin { " ", "\t", "\n" }
                    /\ all_text_results[1][Len(all_text_results[1])]
                          \notin { " ", "\t", "\n" }
           /\ (\A n \in 1..Len(main_raw) : main_raw[n] \notin { "\t", "\n" })
                 => ~HasPairOf(all_text_results[1], { " ", "\t", "\n" })

\* C16 witness: the tags were removed, the two spaces collapsed and the
\* blank line kept.
C16_Witness ==
    /\ TextAccumulated
    /\ pc = "done"
    /\ HasTag(main_raw)
    /\ HasPairOf(main_raw, { " " })
    /\ all_text_results[1] = << "a", " ", "\n", "\n", "b", " ", "c" >>

\* Every message of the log so far is still there, and at most one was
\* added.
AppendOnly ==
    /\ Len(messages') \in { Len(messages), Len(messages) + 1 }
    /\ \A n \in 1..Len(messages) : messages'[n] = messages[n]

\* The log is the system message, then user and assistant turns in
\* alternation, the image in the first user turn and nowhere else.
ImageInFirstUserTurnOnly ==
    /\ ia_pc # "idle" => (Len(messages) >= 1 /\ messages[1].role = "system")
    /\ \A n \in 1..Len(messages) :
          /\ n > 1 => messages[n].role
                         = (IF n % 2 = 0 THEN "user" ELSE "assistant")
          /\ messages[n].image <=> n = 2
    /\ ia_pc \in { "input", "ended" } => Len(messages) % 2 = 1
    /\ ia_pc \in { "request", "crashed" } => Len(messages) % 2 = 0

\* C17: in interactive mode the image is carried by the first user turn and
\* by no other turn, the log is the system message followed by one user
\* and one assistant turn per completed question, and it is only ever
\* appended to.
C17_ImageInFirstTurnOnly ==
    /\ []ImageInFirstUserTurnOnly
    /\ [][AppendOnly]_vars

\* C17 witness: two questions were answered; the first user turn carries
\* the image, the second does not.
C17_Witness ==
    /\ ia_pc = "input"
    /\ Len(messages) = 5
    /\ messages[2].role = "user" /\ messages[2].image
    /\ messages[4].role = "user" /\ ~messages[4].image
    /\ messages[3].role = "assistant" /\ messages[5].role = "assistant"
    /\ ~first_turn

====
